---- MODULE Spec2Model ----
(***************************************************************************)
(* Listening-session tracker of the stream checker web frontend            *)
(* (src/unnamed/part_000, the "Listen Live" player and the diagnostic      *)
(* check form).  Every event handler of the page is one action; the        *)
(* continuation of an awaited logListeningSession call is a separate       *)
(* action (DeliveryComplete), because other handlers run while the         *)
(* network call is in flight.  Time is the millisecond clock of Date.      *)
(* The rendering of the elapsed-time display (updateTimeDisplay,           *)
(* timeUpdateInterval, timeDisplay and the 'timeupdate' listener) is left  *)
(* out: no handler reads it.  What a handler writes to the page is an     *)
(* output of its step (dom), as are its requests (sent) and its commands   *)
(* to the audio element (cmds).  The audio element is an external          *)
(* component: its events are inputs that may arrive in any order, and      *)
(* what its paused and ended properties read is an input of the handler    *)
(* that reads them.                                                        *)
(***************************************************************************)
EXTENDS Integers, Sequences, FiniteSets, TLC

\* ---------------------------------------------------------------- bounds
MaxTicks == 3          \* the clock advances at most this many times
MaxInFlight == 2       \* awaited log requests that may be pending at once
MaxChecks == 2         \* diagnostic checks that may be pending at once
MaxPlayPending == 1    \* play() promises of the Play handler pending at once

\* ------------------------------------------------------- program constants
ThresholdMs == 100     \* listeningTimeSeconds < 0.1
AdMin == 10
AdMax == 300
NoTime == -1           \* listeningStartTime = null
NoUrl == <<>>          \* null / '' (both falsy)

\* the clock is read in steps of half the minimum listening time
TickMs == ThresholdMs \div 2

\* ------------------------------------------------------------ strings
\* A string is a sequence of one-character strings.
Range(s) == {s[i] : i \in 1..Len(s)}

RECURSIVE TrimStart(_)
TrimStart(s) == IF s # <<>> /\ Head(s) = " " THEN TrimStart(Tail(s)) ELSE s

RECURSIVE TrimEnd(_)
TrimEnd(s) ==
    IF s # <<>> /\ s[Len(s)] = " " THEN TrimEnd(SubSeq(s, 1, Len(s) - 1)) ELSE s

\* variant that takes the field as typed
Trim_Untrimmed(s) == s

\* String.prototype.trim
Trim(s) == TrimEnd(TrimStart(s))

\* String.prototype.includes
Includes(s, sub) ==
    \E i \in 1..(Len(s) + 1) :
        /\ i + Len(sub) - 1 <= Len(s)
        /\ SubSeq(s, i, i + Len(sub) - 1) = sub

\* s.split('/').pop(): what follows the last '/', the whole string if none
RECURSIVE LastSegment(_)
LastSegment(s) ==
    IF s = <<>> \/ s[Len(s)] = "/" THEN <<>>
    ELSE LastSegment(SubSeq(s, 1, Len(s) - 1)) \o <<s[Len(s)]>>

\* The src getter of the audio element returns the serialised URL: a URL
\* without a path gets the path "/", a URL with a path is returned as set.
Resolve(u) ==
    IF u = <<>> THEN <<>>
    ELSE IF "/" \in Range(u) THEN u
    ELSE u \o <<"/">>

UrlA == <<"h", "/", "a">>     \* a serialised URL with a path
UrlH == <<"h">>               \* a URL the element serialises as "h/"

\* values the URL input field may hold when a handler reads it
InputValues == { <<>>, <<" ">>, UrlA, <<" ">> \o UrlA \o <<" ">>, UrlH }

Tests == {"connectivity", "stream_info", "ad_detection"}
AdDurations == {0, 9, 10, 300, 301}     \* parseInt of the duration field (0: NaN)
Volumes == {0, 1}
Conts == {"pauseBtn", "stopBtn", "pauseEvt", "ended", "error"}
Outcomes == {"ok", "http_error", "network_error"}

VARIABLES
    now,                      \* Date.now(), ms
    hidden,                   \* document.hidden
    listeningStartTime,       \* NoTime or the ms the session started
    currentStreamUrl,
    currentPlayingUrl,
    isPlayerInitialized,
    pauseTriggeredByButton,
    src,                      \* streamPlayer.src (as the getter returns it)
    volume,                   \* streamPlayer.volume
    muted,                    \* streamPlayer.muted
    muteIcon,                 \* muteBtn.textContent: "on" (speaker) / "off"
    playPending,              \* pending play() promises of the Play handler
    inflight,                 \* awaited log requests pending, per awaiting handler
    checked,                  \* checked test checkboxes
    submitDisabled,           \* submitBtn.disabled
    checks,                   \* pending handleStreamCheck calls (captured state)
    \* what the last step did to the outside
    sent,                     \* bodies of its POSTs to /listening/log
    cmds,                     \* commands it gave the audio element
    dom,                      \* what it wrote to the player's part of the page
    checkSent,                \* it POSTed to /streams/check
    alerted,                  \* the message of its alert() ("": none)
    settled,                  \* how the log request it saw settle ended ("": none)
    \* observers
    sessionSent,              \* POSTs made since listeningStartTime was last set
    pauseRun                  \* only native pauses since a Pause press that logged

trackerVars == <<listeningStartTime, currentStreamUrl>>
ctrlVars == <<currentPlayingUrl, isPlayerInitialized, pauseTriggeredByButton>>
elemVars == <<src, volume, muted>>
formVars == <<muteIcon, checked, submitDisabled, checks>>
outVars == <<sent, cmds, dom, checkSent, alerted, settled>>
vars == <<now, hidden, trackerVars, ctrlVars, elemVars, formVars,
          playPending, inflight, outVars, sessionSent, pauseRun>>

\* Writes to the page: the status line (updateStatus), which of the Play and
\* Pause buttons is shown (isPlaying is set along with it), and the error
\* banner (showError / hideError).  "" means not written.
Dom(st, btn, err) == [status |-> st, button |-> btn, error |-> err]
NoDom == Dom("", "", "")

Init ==
    /\ now = 0
    /\ hidden = FALSE
    /\ listeningStartTime = NoTime
    /\ currentStreamUrl = NoUrl
    /\ currentPlayingUrl = NoUrl
    /\ isPlayerInitialized = FALSE
    /\ pauseTriggeredByButton = FALSE
    /\ src = NoUrl
    /\ volume = 1
    /\ muted = FALSE
    /\ muteIcon = "on"
    /\ playPending = 0
    /\ inflight = [k \in Conts |-> 0]
    /\ checked = Tests
    /\ submitDisabled = FALSE
    /\ checks = <<>>
    /\ sent = <<>>
    /\ cmds = {}
    /\ dom = NoDom
    /\ checkSent = FALSE
    /\ alerted = ""
    /\ settled = ""
    /\ sessionSent = 0
    /\ pauseRun = FALSE

\* ------------------------------------------------ logListeningSession
InFlightCount ==
    inflight["pauseBtn"] + inflight["stopBtn"] + inflight["pauseEvt"]
        + inflight["ended"] + inflight["error"]

\* variant without the guard for "no active listening session"
LogOutcome_NoGuard(sync) ==
    IF now - listeningStartTime < ThresholdMs THEN "short"
    ELSE IF sync THEN "durable"
    ELSE "normal"

\* variant without the minimum listening time: every active session is logged
LogOutcome_NoThreshold(sync) ==
    IF listeningStartTime = NoTime \/ currentStreamUrl = NoUrl THEN "none"
    ELSE IF sync THEN "durable"
    ELSE "normal"

\* which branch the synchronous part of logListeningSession takes
LogOutcome(sync) ==
    IF listeningStartTime = NoTime \/ currentStreamUrl = NoUrl THEN "none"
    ELSE IF now - listeningStartTime < ThresholdMs THEN "short"
    ELSE IF sync THEN "durable"
    ELSE "normal"

\* variant in which every request is sent with keepalive
LogData_AlwaysKeepalive(actionType, sync) ==
    [stream_url |-> currentStreamUrl,
     start_timestamp |-> listeningStartTime,
     end_timestamp |-> now,
     listening_time_ms |-> now - listeningStartTime,
     action_type |-> actionType,
     keepalive |-> TRUE]

\* logData, and whether the request is sent with keepalive
LogData(actionType, sync) ==
    [stream_url |-> currentStreamUrl,
     start_timestamp |-> listeningStartTime,
     end_timestamp |-> now,
     listening_time_ms |-> now - listeningStartTime,
     action_type |-> actionType,
     keepalive |-> sync]

\* the requests the synchronous part sends
SentByLog(actionType, sync) ==
    IF LogOutcome(sync) \in {"durable", "normal"}
    THEN <<LogData(actionType, sync)>>
    ELSE <<>>

\* variant in which the keepalive branch forgets to reset listeningStartTime
StartAfterLog_NoSyncReset(sync) ==
    IF LogOutcome(sync) = "short" THEN NoTime
    ELSE listeningStartTime

\* listeningStartTime after the synchronous part: the awaited branch resets
\* it only after the response has arrived
StartAfterLog(sync) ==
    IF LogOutcome(sync) \in {"short", "durable"} THEN NoTime
    ELSE listeningStartTime

\* the call is suspended at `await fetch`
Suspends(sync) == LogOutcome(sync) = "normal"

\* the pending-request count stays within its bound
LogAllowed(sync) == LogOutcome(sync) = "normal" => InFlightCount < MaxInFlight

\* the observer counts none, one, more than one
Count(n, k) == IF n + k > 1 THEN 2 ELSE n + k

\* a handler that calls logListeningSession(actionType, sync) sends this
Sends(actionType, sync) ==
    /\ sent' = SentByLog(actionType, sync)
    /\ sessionSent' = Count(sessionSent, Len(SentByLog(actionType, sync)))

\* a handler that does not call it sends nothing
SendsNothing == sent' = <<>> /\ sessionSent' = sessionSent

Await(k) == inflight' = [inflight EXCEPT ![k] = @ + 1]

\* the handler is suspended at `await logListeningSession(...)`
Suspended ==
    /\ dom' = NoDom
    /\ UNCHANGED <<trackerVars, currentPlayingUrl, isPlayerInitialized, src>>

\* pauseBtn handler after the await; lst is listeningStartTime at that point
PauseRest(lst) ==
    /\ listeningStartTime' = lst
    /\ dom' = Dom("Paused", "play", "")
    /\ UNCHANGED <<currentStreamUrl, currentPlayingUrl, isPlayerInitialized, src>>

\* variant that forgets to clear the URL the controller has loaded
StopRest_KeepsSource(lst) ==
    /\ listeningStartTime' = lst
    /\ currentPlayingUrl' = currentPlayingUrl
    /\ currentStreamUrl' = NoUrl
    /\ isPlayerInitialized' = FALSE
    /\ dom' = Dom("Stopped", "play", "")
    /\ src' = src

\* variant in which the session outlives the Stop handler
StopRest_KeepsStart(lst) ==
    /\ listeningStartTime' = listeningStartTime
    /\ currentPlayingUrl' = NoUrl
    /\ currentStreamUrl' = currentStreamUrl
    /\ isPlayerInitialized' = FALSE
    /\ dom' = Dom("Stopped", "play", "")
    /\ src' = src

\* stopBtn handler after the await
StopRest(lst) ==
    /\ listeningStartTime' = lst
    /\ currentPlayingUrl' = NoUrl
    /\ currentStreamUrl' = NoUrl
    /\ isPlayerInitialized' = FALSE
    /\ dom' = Dom("Stopped", "play", "")
    /\ src' = src

\* variant that clears the source and leaves the start of the session
EndedRest_KeepsStart(lst) ==
    /\ listeningStartTime' = listeningStartTime
    /\ dom' = Dom("Ended", "play", "")
    /\ currentStreamUrl' = NoUrl
    /\ UNCHANGED <<currentPlayingUrl, isPlayerInitialized, src>>

\* 'ended' listener after the await
EndedRest(lst) ==
    /\ listeningStartTime' = lst
    /\ dom' = Dom("Ended", "play", "")
    /\ currentStreamUrl' = NoUrl
    /\ UNCHANGED <<currentPlayingUrl, isPlayerInitialized, src>>

\* 'error' listener after the (conditional) await
ErrorRest(lst) ==
    /\ listeningStartTime' = lst
    /\ currentStreamUrl' = NoUrl
    /\ dom' = Dom("Error", "play", "show")
    /\ UNCHANGED <<currentPlayingUrl, isPlayerInitialized, src>>

\* ------------------------------------------------------------ handlers
\* no handler of the player touches the clock, the volume or the form
PlayerFrame ==
    /\ checkSent' = FALSE
    /\ alerted' = ""
    /\ settled' = ""
    /\ UNCHANGED <<now, volume, muted, formVars>>

EndRun == pauseRun' = FALSE

\* time passes
Tick ==
    /\ now + TickMs <= MaxTicks * TickMs
    /\ now' = now + TickMs
    /\ sent' = <<>>
    /\ cmds' = {}
    /\ dom' = NoDom
    /\ checkSent' = FALSE
    /\ alerted' = ""
    /\ settled' = ""
    /\ UNCHANGED <<hidden, trackerVars, ctrlVars, elemVars, formVars,
                   playPending, inflight, sessionSent, pauseRun>>

\* variant in which every Play press restarts the listening clock
PlayClick_Restart(v) ==
    LET url == Trim(v)
        needsNewSource == currentPlayingUrl = NoUrl \/ currentPlayingUrl # url
    IN
    /\ IF url = <<>>
       THEN /\ dom' = Dom("Error", "", "show")
            /\ cmds' = {}
            /\ sessionSent' = sessionSent
            /\ UNCHANGED <<trackerVars, currentPlayingUrl, isPlayerInitialized,
                           src, playPending>>
       ELSE /\ playPending < MaxPlayPending
            /\ dom' = Dom("", "", "hide")
            /\ currentPlayingUrl' = IF needsNewSource THEN url ELSE currentPlayingUrl
            /\ src' = IF needsNewSource THEN Resolve(url) ELSE src
            /\ isPlayerInitialized' = (needsNewSource \/ isPlayerInitialized)
            /\ listeningStartTime' = now
            /\ currentStreamUrl' = url
            /\ sessionSent' = 0
            /\ playPending' = playPending + 1
            /\ cmds' = IF needsNewSource THEN {"load", "play"} ELSE {"play"}
    /\ sent' = <<>>
    /\ EndRun
    /\ PlayerFrame
    /\ UNCHANGED <<hidden, pauseTriggeredByButton, inflight>>

\* playBtn click; v is the value of the URL field
PlayClick(v) ==
    LET url == Trim(v)
        needsNewSource == currentPlayingUrl = NoUrl \/ currentPlayingUrl # url
        starts == listeningStartTime = NoTime
    IN
    /\ IF url = <<>>
       THEN /\ dom' = Dom("Error", "", "show")
            /\ cmds' = {}
            /\ sessionSent' = sessionSent
            /\ UNCHANGED <<trackerVars, currentPlayingUrl, isPlayerInitialized,
                           src, playPending>>
       ELSE /\ playPending < MaxPlayPending
            /\ dom' = Dom("", "", "hide")
            /\ currentPlayingUrl' = IF needsNewSource THEN url ELSE currentPlayingUrl
            /\ src' = IF needsNewSource THEN Resolve(url) ELSE src
            /\ isPlayerInitialized' = (needsNewSource \/ isPlayerInitialized)
            /\ listeningStartTime' = IF starts THEN now ELSE listeningStartTime
            /\ currentStreamUrl' = IF starts THEN url ELSE currentStreamUrl
            /\ sessionSent' = IF starts THEN 0 ELSE sessionSent
            /\ playPending' = playPending + 1
            /\ cmds' = IF needsNewSource THEN {"load", "play"} ELSE {"play"}
    /\ sent' = <<>>
    /\ EndRun
    /\ PlayerFrame
    /\ UNCHANGED <<hidden, pauseTriggeredByButton, inflight>>

\* playPromise.then
PlayResolve ==
    /\ playPending > 0
    /\ playPending' = playPending - 1
    /\ dom' = Dom("Playing", "pause", "")
    /\ cmds' = {}
    /\ SendsNothing
    /\ EndRun
    /\ PlayerFrame
    /\ UNCHANGED <<hidden, trackerVars, ctrlVars, src, inflight>>

\* playPromise.catch
PlayReject ==
    /\ playPending > 0
    /\ playPending' = playPending - 1
    /\ dom' = Dom("Error", "", "show")
    /\ listeningStartTime' = NoTime
    /\ cmds' = {}
    /\ SendsNothing
    /\ EndRun
    /\ PlayerFrame
    /\ UNCHANGED <<hidden, currentStreamUrl, ctrlVars, src, inflight>>

\* pauseBtn click
PauseClick ==
    /\ LogAllowed(FALSE)
    /\ pauseTriggeredByButton' = TRUE
    /\ Sends("pause", FALSE)
    /\ IF Suspends(FALSE)
       THEN Await("pauseBtn") /\ Suspended /\ cmds' = {}
       ELSE /\ inflight' = inflight
            /\ PauseRest(StartAfterLog(FALSE))
            /\ cmds' = {"pause"}
    /\ pauseRun' = Suspends(FALSE)
    /\ PlayerFrame
    /\ UNCHANGED <<hidden, playPending>>

\* stopBtn click
StopClick ==
    /\ LogAllowed(FALSE)
    /\ Sends("stop", FALSE)
    /\ IF Suspends(FALSE)
       THEN Await("stopBtn") /\ Suspended /\ cmds' = {}
       ELSE /\ inflight' = inflight
            /\ StopRest(StartAfterLog(FALSE))
            /\ cmds' = {"pause", "seek"}
    /\ EndRun
    /\ PlayerFrame
    /\ UNCHANGED <<hidden, pauseTriggeredByButton, playPending>>

\* 'loadstart' listener
NativeLoadStart ==
    /\ dom' = Dom("Loading...", "", "hide")
    /\ cmds' = {}
    /\ SendsNothing
    /\ EndRun
    /\ PlayerFrame
    /\ UNCHANGED <<hidden, trackerVars, ctrlVars, src, playPending, inflight>>

\* 'canplay' listener
NativeCanPlay ==
    /\ dom' = Dom("Ready", "", "")
    /\ cmds' = {}
    /\ SendsNothing
    /\ EndRun
    /\ PlayerFrame
    /\ UNCHANGED <<hidden, trackerVars, ctrlVars, src, playPending, inflight>>

\* variant in which 'playing' starts a session although no URL is known
NativePlaying_StartsWithoutUrl ==
    LET url == IF src # NoUrl THEN src ELSE currentStreamUrl
        starts == listeningStartTime = NoTime
    IN
    /\ dom' = Dom("Playing", "pause", "")
    /\ currentPlayingUrl' = IF src # NoUrl THEN src ELSE currentPlayingUrl
    /\ currentStreamUrl' = url
    /\ isPlayerInitialized' = (src # NoUrl \/ isPlayerInitialized)
    /\ listeningStartTime' = IF starts THEN now ELSE listeningStartTime
    /\ sessionSent' = IF starts THEN 0 ELSE sessionSent
    /\ sent' = <<>>
    /\ cmds' = {}
    /\ EndRun
    /\ PlayerFrame
    /\ UNCHANGED <<hidden, pauseTriggeredByButton, src, playPending, inflight>>

\* variant in which every 'playing' event restarts the listening clock
NativePlaying_Restart ==
    LET url == IF src # NoUrl THEN src ELSE currentStreamUrl
        starts == url # NoUrl
    IN
    /\ dom' = Dom("Playing", "pause", "")
    /\ currentPlayingUrl' = IF src # NoUrl THEN src ELSE currentPlayingUrl
    /\ currentStreamUrl' = url
    /\ isPlayerInitialized' = (src # NoUrl \/ isPlayerInitialized)
    /\ listeningStartTime' = IF starts THEN now ELSE listeningStartTime
    /\ sessionSent' = IF starts THEN 0 ELSE sessionSent
    /\ sent' = <<>>
    /\ cmds' = {}
    /\ EndRun
    /\ PlayerFrame
    /\ UNCHANGED <<hidden, pauseTriggeredByButton, src, playPending, inflight>>

\* 'playing' listener
NativePlaying ==
    LET url == IF src # NoUrl THEN src ELSE currentStreamUrl
        starts == listeningStartTime = NoTime /\ url # NoUrl
    IN
    /\ dom' = Dom("Playing", "pause", "")
    /\ currentPlayingUrl' = IF src # NoUrl THEN src ELSE currentPlayingUrl
    /\ currentStreamUrl' = url
    /\ isPlayerInitialized' = (src # NoUrl \/ isPlayerInitialized)
    /\ listeningStartTime' = IF starts THEN now ELSE listeningStartTime
    /\ sessionSent' = IF starts THEN 0 ELSE sessionSent
    /\ sent' = <<>>
    /\ cmds' = {}
    /\ EndRun
    /\ PlayerFrame
    /\ UNCHANGED <<hidden, pauseTriggeredByButton, src, playPending, inflight>>

\* 'pause' listener; the status shown depends on streamPlayer.currentTime,
\* which belongs to the audio element
NativePause ==
    LET logs == ~pauseTriggeredByButton /\ listeningStartTime # NoTime
    IN
    /\ logs => LogAllowed(FALSE)
    /\ IF logs THEN Sends("pause", FALSE) ELSE SendsNothing
    /\ listeningStartTime' =
           IF logs THEN StartAfterLog(FALSE) ELSE listeningStartTime
    /\ inflight' = IF logs /\ Suspends(FALSE)
                   THEN [inflight EXCEPT !["pauseEvt"] = @ + 1]
                   ELSE inflight
    /\ pauseTriggeredByButton' = FALSE
    /\ \E st \in {"Stopped", "Paused"} : dom' = Dom(st, "play", "")
    /\ cmds' = {}
    /\ pauseRun' = pauseRun
    /\ PlayerFrame
    /\ UNCHANGED <<hidden, currentStreamUrl, currentPlayingUrl, isPlayerInitialized,
                   src, playPending>>

\* variant in which the end of the stream is logged as a pause
NativeEnded_AsPause ==
    /\ LogAllowed(FALSE)
    /\ Sends("pause", FALSE)
    /\ IF Suspends(FALSE)
       THEN Await("ended") /\ Suspended
       ELSE inflight' = inflight /\ EndedRest(StartAfterLog(FALSE))
    /\ cmds' = {}
    /\ EndRun
    /\ PlayerFrame
    /\ UNCHANGED <<hidden, pauseTriggeredByButton, playPending>>

\* 'ended' listener
NativeEnded ==
    /\ LogAllowed(FALSE)
    /\ Sends("stop", FALSE)
    /\ IF Suspends(FALSE)
       THEN Await("ended") /\ Suspended
       ELSE inflight' = inflight /\ EndedRest(StartAfterLog(FALSE))
    /\ cmds' = {}
    /\ EndRun
    /\ PlayerFrame
    /\ UNCHANGED <<hidden, pauseTriggeredByButton, playPending>>

\* 'error' listener
NativeError ==
    /\ LogAllowed(FALSE)
    /\ Sends("stop", FALSE)
    /\ IF listeningStartTime # NoTime /\ Suspends(FALSE)
       THEN Await("error") /\ Suspended
       ELSE inflight' = inflight /\ ErrorRest(StartAfterLog(FALSE))
    /\ cmds' = {}
    /\ EndRun
    /\ PlayerFrame
    /\ UNCHANGED <<hidden, pauseTriggeredByButton, playPending>>

\* variant that keeps the session when the request has failed, for a retry
StartAfterDelivery_KeepOnFailure(o) ==
    IF o = "ok" THEN NoTime ELSE listeningStartTime

\* listeningStartTime after the awaited fetch has settled: reset whether the
\* response was ok, was not ok, or the fetch threw
StartAfterDelivery(o) == NoTime

\* variant that tells the user when the request has failed
DeliveryComplete_SurfacesFailure(k, o) ==
    /\ inflight[k] > 0
    /\ inflight' = [inflight EXCEPT ![k] = @ - 1]
    /\ listeningStartTime' = StartAfterDelivery(o)
    /\ currentStreamUrl' =
           IF k \in {"stopBtn", "ended", "error"} THEN NoUrl ELSE currentStreamUrl
    /\ currentPlayingUrl' = IF k = "stopBtn" THEN NoUrl ELSE currentPlayingUrl
    /\ isPlayerInitialized' = IF k = "stopBtn" THEN FALSE ELSE isPlayerInitialized
    /\ src' = src
    /\ cmds' = CASE k = "pauseBtn" -> {"pause"}
                 [] k = "stopBtn" -> {"pause", "seek"}
                 [] OTHER -> {}
    /\ dom' = IF o # "ok" THEN Dom("Error", "", "show")
              ELSE CASE k = "pauseBtn" -> Dom("Paused", "play", "")
                     [] k = "stopBtn" -> Dom("Stopped", "play", "")
                     [] k = "ended" -> Dom("Ended", "play", "")
                     [] k = "error" -> Dom("Error", "play", "show")
                     [] OTHER -> NoDom
    /\ SendsNothing
    /\ settled' = o
    /\ checkSent' = FALSE
    /\ alerted' = ""
    /\ UNCHANGED <<now, volume, muted, formVars>>
    /\ UNCHANGED <<hidden, pauseTriggeredByButton, playPending, pauseRun>>

\* the awaited fetch of a log request settles (o: how); the rest of
\* logListeningSession and of the awaiting handler k run
DeliveryComplete(k, o) ==
    /\ inflight[k] > 0
    /\ inflight' = [inflight EXCEPT ![k] = @ - 1]
    /\ CASE k = "pauseBtn" -> PauseRest(StartAfterDelivery(o)) /\ cmds' = {"pause"}
         [] k = "stopBtn" -> StopRest(StartAfterDelivery(o))
                                /\ cmds' = {"pause", "seek"}
         [] k = "ended" -> EndedRest(StartAfterDelivery(o)) /\ cmds' = {}
         [] k = "error" -> ErrorRest(StartAfterDelivery(o)) /\ cmds' = {}
         [] k = "pauseEvt" ->
                /\ listeningStartTime' = StartAfterDelivery(o)
                /\ cmds' = {}
                /\ dom' = NoDom
                /\ UNCHANGED <<currentStreamUrl, currentPlayingUrl,
                               isPlayerInitialized, src>>
    /\ SendsNothing
    /\ settled' = o
    /\ checkSent' = FALSE
    /\ alerted' = ""
    /\ UNCHANGED <<now, volume, muted, formVars>>
    /\ UNCHANGED <<hidden, pauseTriggeredByButton, playPending, pauseRun>>

\* window 'beforeunload' listener
BeforeUnload ==
    LET logs == listeningStartTime # NoTime /\ currentStreamUrl # NoUrl
    IN
    /\ IF logs THEN Sends("stop", TRUE) ELSE SendsNothing
    /\ listeningStartTime' = IF logs THEN StartAfterLog(TRUE) ELSE listeningStartTime
    /\ cmds' = {}
    /\ dom' = NoDom
    /\ EndRun
    /\ PlayerFrame
    /\ UNCHANGED <<hidden, currentStreamUrl, ctrlVars, src, playPending,
                   inflight>>

\* variant that also pauses the audio when the page is hidden
VisibilityChange_PausesPlayer ==
    LET logs == ~hidden /\ listeningStartTime # NoTime /\ currentStreamUrl # NoUrl
    IN
    /\ hidden' = ~hidden
    /\ IF logs THEN Sends("pause", TRUE) ELSE SendsNothing
    /\ listeningStartTime' = IF logs THEN StartAfterLog(TRUE) ELSE listeningStartTime
    /\ cmds' = IF ~hidden THEN {"pause"} ELSE {}
    /\ dom' = NoDom
    /\ EndRun
    /\ PlayerFrame
    /\ UNCHANGED <<currentStreamUrl, ctrlVars, src, playPending, inflight>>

\* variant that takes up tracking again when the page is visible again
VisibilityChange_RestartsOnVisible ==
    LET logs == ~hidden /\ listeningStartTime # NoTime /\ currentStreamUrl # NoUrl
        restarts == hidden /\ listeningStartTime = NoTime /\ currentStreamUrl # NoUrl
    IN
    /\ hidden' = ~hidden
    /\ IF logs THEN Sends("pause", TRUE)
       ELSE /\ sent' = <<>>
            /\ sessionSent' = IF restarts THEN 0 ELSE sessionSent
    /\ listeningStartTime' = IF logs THEN StartAfterLog(TRUE)
                             ELSE IF restarts THEN now
                             ELSE listeningStartTime
    /\ cmds' = {}
    /\ dom' = NoDom
    /\ EndRun
    /\ PlayerFrame
    /\ UNCHANGED <<currentStreamUrl, ctrlVars, src, playPending, inflight>>

\* document 'visibilitychange' listener; the page becomes hidden or visible
VisibilityChange ==
    LET logs == ~hidden /\ listeningStartTime # NoTime /\ currentStreamUrl # NoUrl
    IN
    /\ hidden' = ~hidden
    /\ IF logs THEN Sends("pause", TRUE) ELSE SendsNothing
    /\ listeningStartTime' = IF logs THEN StartAfterLog(TRUE) ELSE listeningStartTime
    /\ cmds' = {}
    /\ dom' = NoDom
    /\ EndRun
    /\ PlayerFrame
    /\ UNCHANGED <<currentStreamUrl, ctrlVars, src, playPending, inflight>>

\* no handler of the form touches the player, the tracker or the clock
FormFrame ==
    /\ SendsNothing
    /\ settled' = ""
    /\ dom' = NoDom
    /\ EndRun
    /\ UNCHANGED <<now, hidden, trackerVars, ctrlVars, src, playPending, inflight>>

\* volumeSlider 'input'
VolumeInput(v) ==
    /\ volume' = v
    /\ muteIcon' = IF v = 0 THEN "off" ELSE "on"
    /\ cmds' = {"volume"}
    /\ checkSent' = FALSE
    /\ alerted' = ""
    /\ FormFrame
    /\ UNCHANGED <<muted, checked, submitDisabled, checks>>

\* variant in which muting counts as the end of listening
MuteClick_EndsSession ==
    /\ muted' = ~muted
    /\ muteIcon' = IF muted THEN "on" ELSE "off"
    /\ cmds' = {"muted"}
    /\ checkSent' = FALSE
    /\ alerted' = ""
    /\ settled' = ""
    /\ Sends("pause", TRUE)
    /\ listeningStartTime' = StartAfterLog(TRUE)
    /\ dom' = NoDom
    /\ EndRun
    /\ UNCHANGED <<now, hidden, currentStreamUrl, ctrlVars, src, playPending,
                   inflight, volume, checked, submitDisabled, checks>>

\* muteBtn click
MuteClick ==
    /\ muted' = ~muted
    /\ muteIcon' = IF muted THEN "on" ELSE "off"
    /\ cmds' = {"muted"}
    /\ checkSent' = FALSE
    /\ alerted' = ""
    /\ FormFrame
    /\ UNCHANGED <<volume, checked, submitDisabled, checks>>

\* the user toggles test checkbox t; its 'change' listener runs
ToggleTest(t) ==
    LET toggled == IF t \in checked THEN checked \ {t} ELSE checked \cup {t}
    IN
    /\ checked' = IF t # "connectivity" /\ t \in toggled
                  THEN toggled \cup {"connectivity"}
                  ELSE toggled
    /\ cmds' = {}
    /\ checkSent' = FALSE
    /\ alerted' = ""
    /\ FormFrame
    /\ UNCHANGED <<elemVars, muteIcon, submitDisabled, checks>>

\* selectAllBtn click
SelectAll ==
    /\ checked' = Tests
    /\ cmds' = {}
    /\ checkSent' = FALSE
    /\ alerted' = ""
    /\ FormFrame
    /\ UNCHANGED <<elemVars, muteIcon, submitDisabled, checks>>

\* deselectAllBtn click
DeselectAll ==
    /\ checked' = {}
    /\ cmds' = {}
    /\ checkSent' = FALSE
    /\ alerted' = ""
    /\ FormFrame
    /\ UNCHANGED <<elemVars, muteIcon, submitDisabled, checks>>

\* variant that accepts an empty selection of tests
CheckAlert_NoTestNeeded(v, d) ==
    IF Trim(v) = <<>> THEN "Please enter a stream URL"
    ELSE IF "ad_detection" \in checked /\ ~(d # 0 /\ d >= AdMin /\ d <= AdMax)
    THEN "Ad detection duration must be between 10 and 300 seconds."
    ELSE ""

\* the validation of handleStreamCheck: the message of the alert it raises,
\* "" when the input is valid; v is the URL field, d the parsed ad-detection
\* duration field (0: not a number)
CheckAlert(v, d) ==
    IF Trim(v) = <<>> THEN "Please enter a stream URL"
    ELSE IF "ad_detection" \in checked /\ ~(d # 0 /\ d >= AdMin /\ d <= AdMax)
    THEN "Ad detection duration must be between 10 and 300 seconds."
    ELSE IF checked = {} THEN "Please select at least one test to run."
    ELSE ""

\* handleStreamCheck up to its fetch; playing is what
\* !streamPlayer.paused && !streamPlayer.ended reads
HandleStreamCheck(v, d, playing) ==
    /\ alerted' = CheckAlert(v, d)
    /\ IF CheckAlert(v, d) = ""
       THEN /\ Len(checks) < MaxChecks
            /\ submitDisabled' = TRUE
            /\ checkSent' = TRUE
            /\ checks' = Append(checks, [wasPlaying |-> playing,
                                         currentSrc |-> src,
                                         currentVolume |-> volume,
                                         wasMuted |-> muted])
       ELSE checkSent' = FALSE /\ UNCHANGED <<submitDisabled, checks>>
    /\ cmds' = {}
    /\ FormFrame
    /\ UNCHANGED <<elemVars, muteIcon, checked>>

\* submitBtn click: a disabled button dispatches no click
SubmitCheck(v, d, playing) ==
    /\ ~submitDisabled
    /\ HandleStreamCheck(v, d, playing)

\* 'submit' event of a form with the id streamForm (the Enter key in one of
\* its fields); the listener calls handleStreamCheck whatever the state of
\* the submit button
FormSubmit(v, d, playing) == HandleStreamCheck(v, d, playing)

\* the fetch of the i-th pending handleStreamCheck call settles (o: how);
\* each call awaits its own fetch, so the calls settle in any order; its
\* try/catch/finally run; isPaused is what audioPlayer.paused reads
CheckComplete(i, o, isPaused) ==
    /\ i <= Len(checks)
    /\ LET c == checks[i]
           srcMatches == \/ src = c.currentSrc
                         \/ src = <<>>
                         \/ Includes(src, LastSegment(c.currentSrc))
           restore == c.wasPlaying /\ c.currentSrc # <<>> /\ srcMatches
       IN
       /\ checks' = SubSeq(checks, 1, i - 1) \o SubSeq(checks, i + 1, Len(checks))
       /\ submitDisabled' = FALSE
       /\ volume' = IF restore THEN c.currentVolume ELSE volume
       /\ muted' = IF restore THEN c.wasMuted ELSE muted
       /\ cmds' = IF restore
                  THEN {"volume", "muted"} \cup (IF isPaused THEN {"play"} ELSE {})
                  ELSE {}
    /\ checkSent' = FALSE
    /\ alerted' = ""
    /\ FormFrame
    /\ UNCHANGED <<muteIcon, checked>>

\* the handlers of the player, the log requests settling, and the clock
Next ==
    \/ Tick
    \/ \E v \in InputValues : PlayClick(v)
    \/ PlayResolve
    \/ PlayReject
    \/ PauseClick
    \/ StopClick
    \/ NativePlaying
    \/ NativePause
    \/ NativeEnded
    \/ NativeError
    \/ \E k \in Conts, o \in Outcomes : DeliveryComplete(k, o)
    \/ BeforeUnload
    \/ VisibilityChange

\* the player and its session tracker
Spec == Init /\ [][Next]_vars

\* every pending log request settles in the end: fetch resolves or rejects
DeliveryFairness ==
    \A k \in Conts : WF_vars(\E o \in Outcomes : DeliveryComplete(k, o))

\* the presses, the player's events and the clock: the steps that open a
\* session, close one with an awaited request, or settle such a request
LiveNext ==
    \/ Tick
    \/ \E v \in InputValues : PlayClick(v)
    \/ PlayResolve
    \/ PlayReject
    \/ PauseClick
    \/ StopClick
    \/ NativePlaying
    \/ NativePause
    \/ NativeEnded
    \/ NativeError
    \/ \E k \in Conts, o \in Outcomes : DeliveryComplete(k, o)

\* the player under the assumption that every log request settles
SpecLive == Init /\ [][LiveNext]_vars /\ DeliveryFairness

\* the form with both ways of submitting it, the checks settling, the volume
\* controls and the status listeners, next to a player that is started (at
\* one reading of the clock)
UiNext ==
    \/ \E v \in Volumes : VolumeInput(v)
    \/ MuteClick
    \/ \E t \in Tests : ToggleTest(t)
    \/ SelectAll
    \/ DeselectAll
    \/ \E v \in InputValues, d \in AdDurations, playing \in BOOLEAN :
           SubmitCheck(v, d, playing)
    \/ \E v \in InputValues, d \in AdDurations, playing \in BOOLEAN :
           FormSubmit(v, d, playing)
    \/ \E i \in 1..MaxChecks, o \in Outcomes, isPaused \in BOOLEAN :
           CheckComplete(i, o, isPaused)
    \/ NativeLoadStart
    \/ NativeCanPlay
    \/ \E v \in InputValues : PlayClick(v)

SpecUI == Init /\ [][UiNext]_vars

\* the check form by itself: the test checkboxes, both ways of submitting
\* (the button and the Enter key) and the checks settling
FormNext ==
    \/ \E t \in Tests : ToggleTest(t)
    \/ SelectAll
    \/ DeselectAll
    \/ \E v \in InputValues, d \in AdDurations, playing \in BOOLEAN :
           SubmitCheck(v, d, playing)
    \/ \E v \in InputValues, d \in AdDurations, playing \in BOOLEAN :
           FormSubmit(v, d, playing)
    \/ \E i \in 1..MaxChecks, o \in Outcomes, isPaused \in BOOLEAN :
           CheckComplete(i, o, isPaused)

SpecForm == Init /\ [][FormNext]_vars

\* ------------------------------------------------------------ properties
Active == listeningStartTime # NoTime /\ currentStreamUrl # NoUrl
Elapsed == now - listeningStartTime
Long == Active /\ Elapsed >= ThresholdMs
Short == Active /\ Elapsed < ThresholdMs

PlayStep == \E v \in InputValues : PlayClick(v)
CompleteStep == \E k \in Conts, o \in Outcomes : DeliveryComplete(k, o)

\* the events that close a session, each with its reason
CloseStep ==
    \/ PauseClick
    \/ StopClick
    \/ NativePause /\ ~pauseTriggeredByButton
    \/ NativeEnded
    \/ NativeError
    \/ VisibilityChange /\ ~hidden
    \/ BeforeUnload

\* C1: for one setting of listeningStartTime at most one request is sent to
\* the logging endpoint.
C1_AtMostOneRecordPerSession == sessionSent <= 1

\* C2: a Pause press on a session that has lasted the threshold sends one
\* request, and the native pause events that follow it, with no other event
\* in between, send none: exactly one request for the press and the pauses.
C2_PauseThenNativePauses ==
    [][/\ (Long /\ PauseClick) => Len(sent') = 1
       /\ (pauseRun /\ NativePause) => sent' = <<>>]_vars

\* C3: the step that handles a closing event on an active session leaves the
\* session slot cleared; it does not wait for the request to settle.
C3_CloseIsAtomic == [][(Active /\ CloseStep) => listeningStartTime' = NoTime]_vars

\* C4: a Play press for another source while a session is active closes that
\* session (with a record of its own source and times when it has lasted the
\* threshold) and starts a session of the new source at the current time.
C4_PlayOtherSourceClosesFirst ==
    [][\A v \in InputValues :
          (/\ PlayClick(v)
           /\ Active
           /\ Trim(v) # <<>>
           /\ Resolve(Trim(v)) # Resolve(currentStreamUrl))
          => /\ listeningStartTime' = now
             /\ currentStreamUrl' = Trim(v)
             /\ Long => /\ Len(sent') = 1
                        /\ sent'[1].stream_url = currentStreamUrl
                        /\ sent'[1].start_timestamp = listeningStartTime
                        /\ sent'[1].end_timestamp = now]_vars

\* C5: the Play press does not set the start of the session; only the report
\* that playback has started (play() fulfilled, or 'playing') does.
C5_StartAtPlaybackReport ==
    [][PlayStep => listeningStartTime' = listeningStartTime]_vars

\* C5 (amended): a Play press that finds no session sets the start to the time
\* of the press; the later report of playback leaves it; the record of a Pause
\* press runs from that start to the press of Pause, with action "pause".
C5_StartAtPlayPress ==
    [][/\ \A v \in InputValues :
             (listeningStartTime = NoTime /\ Trim(v) # <<>> /\ PlayClick(v))
             => listeningStartTime' = now
       /\ (listeningStartTime # NoTime /\ (NativePlaying \/ PlayResolve))
             => listeningStartTime' = listeningStartTime
       /\ (Long /\ PauseClick)
             => /\ Len(sent') = 1
                /\ sent'[1].start_timestamp = listeningStartTime
                /\ sent'[1].listening_time_ms = now - listeningStartTime
                /\ sent'[1].action_type = "pause"]_vars

\* a Pause press has just sent the record of a session that 'playing' has
\* reported (currentStreamUrl is the element's resolved URL) and that has
\* lasted longer than the threshold
C5_Witness ==
    /\ sent # <<>>
    /\ pauseTriggeredByButton
    /\ inflight["pauseBtn"] > 0
    /\ sent[1].stream_url = Resolve(UrlH)
    /\ sent[1].listening_time_ms = now - sent[1].start_timestamp
    /\ sent[1].listening_time_ms > ThresholdMs

\* C6: a log request settling while a session started after it was sent is
\* active leaves that session's start and source as they are.
C6_CompletionKeepsNewSession ==
    [][(Active /\ sessionSent = 0 /\ CompleteStep) => UNCHANGED trackerVars]_vars

\* C7: every request sent carries a listening time of at least the threshold;
\* a closing event on an active session shorter than the threshold sends
\* nothing and clears the session; on one that has lasted the threshold it
\* sends one request.
C7_Threshold ==
    [][/\ \A i \in 1..Len(sent') : sent'[i].listening_time_ms >= ThresholdMs
       /\ (Short /\ CloseStep) => (sent' = <<>> /\ listeningStartTime' = NoTime)
       /\ (Long /\ CloseStep) => Len(sent') = 1]_vars

\* a request for a session of exactly the threshold has just been sent
C7_Witness ==
    /\ sent # <<>>
    /\ sent[1].listening_time_ms = ThresholdMs
    /\ sent[1].end_timestamp - sent[1].start_timestamp = ThresholdMs

\* C8: 'beforeunload' on an active session that has lasted the threshold sends
\* exactly one request, with keepalive and without a pending await, and the
\* handler ends with the session cleared.
C8_UnloadDurable ==
    [][(Long /\ BeforeUnload)
          => /\ Len(sent') = 1
             /\ sent'[1].keepalive
             /\ sent'[1].action_type = "stop"
             /\ sent'[1].stream_url = currentStreamUrl
             /\ sent'[1].start_timestamp = listeningStartTime
             /\ sent'[1].end_timestamp = now
             /\ inflight' = inflight
             /\ listeningStartTime' = NoTime]_vars

\* 'beforeunload' has just sent its request
C8_Witness ==
    /\ sent # <<>>
    /\ sent[1].keepalive
    /\ sent[1].action_type = "stop"
    /\ sent[1].listening_time_ms >= ThresholdMs
    /\ listeningStartTime = NoTime

\* a check is submitted, by the button or by the form's 'submit' event
SubmitStep ==
    \E v \in InputValues, d \in AdDurations, playing \in BOOLEAN :
        SubmitCheck(v, d, playing) \/ FormSubmit(v, d, playing)
CheckCompleteStep ==
    \E i \in 1..MaxChecks, o \in Outcomes, isPaused \in BOOLEAN :
        CheckComplete(i, o, isPaused)

\* C9: submitting a diagnostic check, and its completion, give the audio
\* element no play, pause or load command and leave the tracker as it is.
C9_CheckLeavesPlayer ==
    [][(SubmitStep \/ CheckCompleteStep)
          => /\ cmds' \cap {"play", "pause", "load"} = {}
             /\ UNCHANGED trackerVars]_vars

\* the actions of the page that are not playback actions
UiStep ==
    \/ SubmitStep
    \/ \E t \in Tests : ToggleTest(t)
    \/ SelectAll
    \/ DeselectAll
    \/ \E v \in Volumes : VolumeInput(v)
    \/ MuteClick

\* C10: submitting a check, toggling a test, Select All, Deselect All, a
\* volume change and a mute toggle on an active session leave the tracker as
\* it is and send no request.
C10_UiLeavesTracker ==
    [][(Active /\ (trackerVars' # trackerVars \/ sent' # <<>>)) => ~UiStep]_vars

\* a check has just been submitted while a session is active
C10_Witness ==
    /\ checkSent
    /\ Active
    /\ checks # <<>>
    /\ checks[1].wasPlaying

\* C11: the step that handles a Pause or Stop press gives the audio element
\* the pause command, whatever becomes of the log request, and no pause
\* command is given later, when the request settles.
C11_PauseCommandWithPress ==
    [][/\ (PauseClick \/ StopClick) => "pause" \in cmds'
       /\ (InFlightCount' < InFlightCount) => "pause" \notin cmds']_vars

\* C12: a Stop press on a session that has lasted the threshold sends its
\* record; once that record has been sent (its request pending or settled)
\* the next Play press starts a new session at the time of that press, so the
\* record of the second session starts there and not at the start of the
\* first.
C12_PlayAfterStopStartsAnew ==
    [][/\ (Long /\ StopClick) => Len(sent') = 1
       /\ \A v \in InputValues :
             (/\ sessionSent > 0
              /\ inflight["stopBtn"] > 0
              /\ Trim(v) # <<>>
              /\ PlayClick(v))
             => (listeningStartTime' = now /\ currentStreamUrl' = Trim(v))]_vars

\* the same stream: the URL as typed and the URL as the element serialises it
SameSource(a, b) == Resolve(a) = Resolve(b)

\* C13: a Play press for the source of the active session, and a 'playing'
\* event of the element playing that source, leave the start of the session
\* and its source as they are and send nothing.
C13_StartWhileActiveSameSource ==
    [][/\ \A v \in InputValues :
             (Active /\ Trim(v) # <<>> /\ SameSource(Trim(v), currentStreamUrl)
                     /\ PlayClick(v))
             => /\ UNCHANGED trackerVars
                /\ sent' = <<>>
       /\ (Active /\ SameSource(src, currentStreamUrl) /\ NativePlaying)
             => /\ listeningStartTime' = listeningStartTime
                /\ SameSource(currentStreamUrl', currentStreamUrl)
                /\ sent' = <<>>]_vars

\* Play has just been pressed again, later, for the source of the active
\* session
C13_Witness ==
    /\ Active
    /\ listeningStartTime < now
    /\ "play" \in cmds
    /\ dom = Dom("", "", "hide")
    /\ SameSource(currentPlayingUrl, currentStreamUrl)

\* C14: when the play() promise is rejected while a session that has lasted
\* the threshold is active, a record of that session is sent.
C14_PlayRejectLogs ==
    [][(Long /\ PlayReject) => Len(sent') = 1]_vars

\* C15: the step in which a pending log request settles, with success or
\* with failure, sends nothing (no second attempt) and leaves the tracker
\* without a session, so that no later request is built from it.
C15_NoRetry ==
    [][(InFlightCount' < InFlightCount)
          => /\ settled' \in Outcomes
             /\ sent' = <<>>
             /\ sessionSent' = sessionSent
             /\ listeningStartTime' = NoTime]_vars

\* a log request has just failed at the transport
C15_Witness ==
    /\ settled = "network_error"
    /\ sent = <<>>
    /\ sessionSent = 1
    /\ listeningStartTime = NoTime

\* C16: a request sent with keepalive, which no handler awaits, comes from
\* 'beforeunload' or from the page becoming hidden; a request of the Pause or
\* Stop button or of the 'pause', 'ended' or 'error' listener is sent without
\* keepalive and is awaited.
C16_DurableOnlyForPage ==
    [][sent' # <<>>
          => IF sent'[1].keepalive
             THEN /\ BeforeUnload \/ VisibilityChange
                  /\ inflight' = inflight
             ELSE /\ \/ PauseClick
                     \/ StopClick
                     \/ NativePause
                     \/ NativeEnded
                     \/ NativeError
                  /\ InFlightCount' = InFlightCount + 1]_vars

\* the page has just become hidden and the record of the session was sent
\* with keepalive
C16_Witness ==
    /\ sent # <<>>
    /\ sent[1].keepalive
    /\ sent[1].action_type = "pause"
    /\ hidden
    /\ listeningStartTime = NoTime

\* nothing but spaces
Blank(v) == \A i \in 1..Len(v) : v[i] = " "

\* C17: a Play press with an empty or blank URL field gives the audio element
\* no command, leaves its source, the URL being played and the tracker as
\* they are, and sends nothing.
C17_BlankUrlFailsFast ==
    [][\A v \in InputValues :
          (Blank(v) /\ PlayClick(v))
          => /\ cmds' = {}
             /\ UNCHANGED <<trackerVars, src, currentPlayingUrl, playPending>>
             /\ sent' = <<>>
             /\ dom'.error = "show"]_vars

\* Play has just been pressed with a blank field while a session is active
C17_Witness ==
    /\ Active
    /\ dom = Dom("Error", "", "show")
    /\ cmds = {}
    /\ sent = <<>>

\* C18: the tracker holds no session or one whole session, a start time not
\* in the future together with a source; and no step puts another start time
\* in the place of the one of an active session: a session begins only when
\* there is none.
C18_AtMostOneSession ==
    [][/\ \/ listeningStartTime' = NoTime
          \/ listeningStartTime' \in 0..now' /\ currentStreamUrl' # NoUrl
       /\ (listeningStartTime # NoTime /\ listeningStartTime' # NoTime)
             => listeningStartTime' = listeningStartTime]_vars

\* 'playing' has just been reported for the source of a session that has
\* been active for some time
C18_Witness ==
    /\ Active
    /\ listeningStartTime < now
    /\ dom = Dom("Playing", "pause", "")
    /\ currentStreamUrl = src
    /\ sessionSent = 0

\* C19: every request carries the start of the session being closed, the
\* current time as its end, their difference as the listening time and the
\* source of the session; and as long as a session lasts its source stays
\* the one it was started with.
C19_RecordOfOneSource ==
    [][/\ \A i \in 1..Len(sent') :
             /\ sent'[i].start_timestamp = listeningStartTime
             /\ sent'[i].end_timestamp = now
             /\ sent'[i].listening_time_ms
                    = sent'[i].end_timestamp - sent'[i].start_timestamp
             /\ sent'[i].stream_url = currentStreamUrl
       /\ (Active /\ listeningStartTime' = listeningStartTime)
             => SameSource(currentStreamUrl', currentStreamUrl)]_vars

\* C20: the action type of a request is "pause" when the Pause button, the
\* 'pause' listener or the page becoming hidden sends it, and "stop" when the
\* Stop button, the 'ended' or 'error' listener or 'beforeunload' sends it.
C20_ActionType ==
    [][sent' # <<>>
          => /\ Len(sent') = 1
             /\ sent'[1].action_type \in {"pause", "stop"}
             /\ sent'[1].action_type = "pause"
                   <=> (PauseClick \/ NativePause \/ VisibilityChange)
             /\ sent'[1].action_type = "stop"
                   <=> (StopClick \/ NativeEnded \/ NativeError \/ BeforeUnload)]_vars

\* the 'pause' listener has just sent the record of a pause that no button
\* caused
C20_Witness ==
    /\ sent # <<>>
    /\ sent[1].action_type = "pause"
    /\ ~sent[1].keepalive
    /\ ~pauseTriggeredByButton
    /\ inflight["pauseEvt"] > 0
    /\ dom.button = "play"

\* C21: the step in which the Stop handler runs to its end (it commands pause
\* and the seek to zero) leaves no loaded URL, no source and no session; and
\* a Play press that finds no loaded URL, as after that step, loads the URL
\* of the field into the audio element, also when the element still holds
\* that URL, and starts a session of that URL at the time of the press.
C21_StopThenPlayReloads ==
    [][/\ ("seek" \in cmds')
             => /\ currentPlayingUrl' = NoUrl
                /\ currentStreamUrl' = NoUrl
                /\ listeningStartTime' = NoTime
       /\ \A v \in InputValues :
             (currentPlayingUrl = NoUrl /\ ~Blank(v) /\ PlayClick(v))
             => /\ "load" \in cmds'
                /\ src' = Resolve(Trim(v))
                /\ currentPlayingUrl' = Trim(v)
                /\ listeningStartTime' = now
                /\ currentStreamUrl' = Trim(v)
                /\ sessionSent' = 0]_vars

\* the Stop handler has just run to its end after its record was delivered;
\* the audio element still holds the URL that was playing
C21_Witness ==
    /\ cmds = {"pause", "seek"}
    /\ settled = "ok"
    /\ src # NoUrl
    /\ currentPlayingUrl = NoUrl
    /\ listeningStartTime = NoTime
    /\ dom = Dom("Stopped", "play", "")

\* C22: the step in which the page becomes hidden leaves the tracker without
\* a session, and while the page stays hidden no event of the audio element
\* or of the page starts one (the Play button of a hidden page is out of the
\* user's reach), so that no record covers time during which the page was
\* hidden.
C22_IdleWhileHidden ==
    [][/\ (~hidden /\ hidden') => listeningStartTime' = NoTime
       /\ (hidden /\ hidden' /\ listeningStartTime = NoTime)
             => (listeningStartTime' = NoTime \/ PlayStep)]_vars

\* C23: the step in which a log request settles writes to the status line,
\* the Play and Pause buttons and the error banner what the handler that
\* awaited it writes after its log call, whether the request succeeded, was
\* answered with an error status or failed at the transport; the listener of
\* 'pause', which does not await, writes nothing.  The only banner shown is
\* that of the 'error' listener, for the playback error it handles.
C23_DeliveryFailureSilent ==
    [][\A k \in Conts :
          (inflight'[k] < inflight[k])
          => /\ settled' \in Outcomes
             /\ dom' = CASE k = "pauseBtn" -> Dom("Paused", "play", "")
                         [] k = "stopBtn" -> Dom("Stopped", "play", "")
                         [] k = "ended" -> Dom("Ended", "play", "")
                         [] k = "error" -> Dom("Error", "play", "show")
                         [] k = "pauseEvt" -> NoDom]_vars

\* the request of a Pause press has just been answered with an error status
C23_Witness ==
    /\ settled = "http_error"
    /\ dom = Dom("Paused", "play", "")
    /\ cmds = {"pause"}
    /\ listeningStartTime = NoTime

\* C24: whenever a test other than Basic Connectivity is checked, Basic
\* Connectivity is checked too.
C24_ConnectivityDependency ==
    (checked \ {"connectivity"}) # {} => "connectivity" \in checked

\* C25: handleStreamCheck sends the check request only when the URL field is
\* not blank, at least one test is checked and, if ad detection is checked,
\* its duration is a number from 10 to 300; otherwise it raises an alert,
\* sends nothing and leaves the submit button and the pending checks as they
\* are.
C25_ValidatedBeforeSend ==
    [][/\ checkSent' => (checked # {} /\ alerted' = "" /\ submitDisabled')
       /\ (alerted' # "") => (~checkSent' /\ UNCHANGED <<submitDisabled, checks>>)
       /\ (checkSent' \/ alerted' # "")
             => \A v \in InputValues, d \in AdDurations :
                   (\E playing \in BOOLEAN : HandleStreamCheck(v, d, playing))
                   => (checkSent' <=> /\ ~Blank(v)
                                      /\ checked # {}
                                      /\ "ad_detection" \in checked
                                            => d \in AdMin..AdMax)]_vars

\* a submission with no test checked has just been refused: the button is
\* enabled and no check is pending
C25_Witness ==
    /\ alerted = "Please select at least one test to run."
    /\ checked = {}
    /\ ~checkSent
    /\ ~submitDisabled
    /\ checks = <<>>

\* C26: at most one check request is pending, and the submit button is
\* disabled exactly while one is: from the step that sends it to the step
\* that handles its outcome, whatever the outcome.
C26_OneCheckInFlight ==
    /\ Len(checks) <= 1
    /\ submitDisabled <=> checks # <<>>

\* C27: while the tracker holds no session, a Pause or Stop press, a 'pause',
\* 'ended' or 'error' event of the audio element, a visibility change and
\* 'beforeunload' send nothing, leave no request pending that was not
\* pending before, and leave the tracker without a session.
C27_IdleStaysIdle ==
    [][(/\ listeningStartTime = NoTime
        /\ \/ PauseClick
           \/ StopClick
           \/ NativePause
           \/ NativeEnded
           \/ NativeError
           \/ VisibilityChange
           \/ BeforeUnload)
          => /\ sent' = <<>>
             /\ inflight' = inflight
             /\ listeningStartTime' = NoTime]_vars

\* Stop has just been pressed on a page that has not played anything, after
\* more than the minimum listening time
C27_Witness ==
    /\ src = NoUrl
    /\ now >= ThresholdMs
    /\ cmds = {"pause", "seek"}
    /\ sent = <<>>
    /\ InFlightCount = 0
    /\ listeningStartTime = NoTime

\* C28: a 'pause' event of the audio element that no Pause press announced,
\* on an active session, closes the session: it sends the record of the
\* session when that has lasted the threshold, the step leaves the tracker
\* without a session, and a 'pause' event sends nothing for a session whose
\* record has been sent.
C28_ExternalPauseCloses ==
    [][/\ (Long /\ ~pauseTriggeredByButton /\ NativePause)
             => (Len(sent') = 1 /\ sent'[1].action_type = "pause")
       /\ (Active /\ ~pauseTriggeredByButton /\ NativePause)
             => listeningStartTime' = NoTime
       /\ (sessionSent > 0 /\ NativePause) => sent' = <<>>]_vars

\* C29: a Stop press on a session that has lasted the threshold sends one
\* record, with action "stop", and does not set the flag of the Pause
\* button; the step in which the Stop handler commands the pause leaves the
\* tracker without a session, so the 'pause' event which that command causes
\* sends nothing and leaves no request pending: one record for the session.
C29_StopThenItsNativePause ==
    [][/\ (Long /\ StopClick)
             => /\ Len(sent') = 1
                /\ sent'[1].action_type = "stop"
                /\ pauseTriggeredByButton' = pauseTriggeredByButton
       /\ ("seek" \in cmds') => listeningStartTime' = NoTime
       /\ ("seek" \in cmds /\ NativePause)
             => /\ sent' = <<>>
                /\ sessionSent' = sessionSent
                /\ inflight' = inflight]_vars

\* the Stop handler has just commanded the pause, after the one record of
\* the session was delivered, and the flag of the Pause button is not set
C29_Witness ==
    /\ cmds = {"pause", "seek"}
    /\ settled \in Outcomes
    /\ sessionSent = 1
    /\ ~pauseTriggeredByButton
    /\ InFlightCount = 0
    /\ listeningStartTime = NoTime

\* C30: the step that handles an 'ended' or 'error' event on an active
\* session leaves the tracker without a session and without a source, and
\* sends at most one record, with action "stop"; the session has then had
\* no more than one record.
C30_ErrorOrEndedCloses ==
    [][(Active /\ (NativeEnded \/ NativeError))
          => /\ listeningStartTime' = NoTime
             /\ currentStreamUrl' = NoUrl
             /\ Len(sent') <= 1
             /\ \A i \in 1..Len(sent') : sent'[i].action_type = "stop"
             /\ sessionSent' <= 1]_vars

\* C31: the step in which the page becomes hidden while a session is active
\* leaves the tracker without a session, gives the audio element no command
\* and leaves its source and the pending requests as they are; it sends one
\* record, with action "pause" and keepalive, when the session has lasted
\* the threshold, and nothing when it has not.
C31_HiddenClosesTrackingOnly ==
    [][(Active /\ ~hidden /\ VisibilityChange)
          => /\ hidden'
             /\ listeningStartTime' = NoTime
             /\ cmds' = {}
             /\ src' = src
             /\ inflight' = inflight
             /\ Long => /\ Len(sent') = 1
                        /\ sent'[1].action_type = "pause"
                        /\ sent'[1].keepalive
                        /\ sent'[1].start_timestamp = listeningStartTime
                        /\ sent'[1].end_timestamp = now
             /\ Short => sent' = <<>>]_vars

\* the page has just become hidden during a session of the source the audio
\* element holds: its record was sent and the element got no command
C31_Witness ==
    /\ hidden
    /\ cmds = {}
    /\ sent # <<>>
    /\ sent[1].keepalive
    /\ sent[1].stream_url = src
    /\ sent[1].listening_time_ms >= ThresholdMs
    /\ currentStreamUrl # NoUrl
    /\ listeningStartTime = NoTime
    /\ InFlightCount = 0

\* C32: a Play press with a URL in the field loads that URL into the audio
\* element exactly when it is not the source the controller has loaded (or
\* none is loaded); a press for the loaded source commands play only and
\* leaves the source of the element as it is.
C32_ReloadOnlyOnNewSource ==
    [][\A v \in InputValues :
          (~Blank(v) /\ PlayClick(v))
          => /\ "play" \in cmds'
             /\ "load" \in cmds' <=> ~SameSource(Trim(v), currentPlayingUrl)
             /\ SameSource(Trim(v), currentPlayingUrl) => src' = src]_vars

\* C33: after a playback failure the player can be used again at once.  The
\* step that handles a rejected play() leaves the tracker without a session;
\* and a Play press with a URL in the field, made when the 'error' listener
\* has shown its error or while that listener is waiting for the request of
\* the failed session, commands play and starts a session of that URL at
\* the time of the press.
C33_UsableAfterFailure ==
    [][/\ PlayReject => listeningStartTime' = NoTime
       /\ \A v \in InputValues :
             (/\ dom = Dom("Error", "play", "show") \/ inflight["error"] > 0
              /\ ~Blank(v)
              /\ PlayClick(v))
             => /\ "play" \in cmds'
                /\ listeningStartTime' = now
                /\ currentStreamUrl' = Trim(v)]_vars

\* C34: whenever the tracker holds the start of a session it holds the
\* source of the session too.
C34_StartImpliesSource ==
    listeningStartTime # NoTime => currentStreamUrl # NoUrl

\* a session has been started while the rest of a Stop handler and of an
\* 'ended' listener, which clear the source, are still to run
C34_Witness ==
    /\ listeningStartTime # NoTime
    /\ currentStreamUrl # NoUrl
    /\ sessionSent = 0
    /\ inflight["stopBtn"] > 0
    /\ inflight["ended"] > 0

\* C35: the flag of the Pause button stands for "the Pause press has logged
\* this session".  A 'pause' event on an active session of which no record
\* has been sent, so that no Pause press has logged it, closes the session:
\* it sends the record or, for a session shorter than the threshold, clears
\* the session.  No flag left by an earlier Pause press keeps it from that.
C35_NoLeftoverFlag ==
    [][(Active /\ sessionSent = 0 /\ NativePause)
          => (sent' # <<>> \/ listeningStartTime' = NoTime)]_vars

\* C36: if every log request settles in the end, then whenever the handler
\* of a Pause or Stop press is waiting for the request of the session it has
\* closed, a state follows in which the audio element has been given the
\* pause command and the tracker holds no session.  A press on a session
\* shorter than the threshold waits for nothing: it gives the command and
\* clears the session in its own step.
C36_PressEndsPausedAndIdle ==
    /\ [][(Short /\ (PauseClick \/ StopClick))
            => ("pause" \in cmds' /\ listeningStartTime' = NoTime)]_vars
    /\ (inflight["pauseBtn"] > 0 \/ inflight["stopBtn"] > 0)
          ~> ("pause" \in cmds /\ listeningStartTime = NoTime)

\* the request of a Pause press has settled, the last one pending: the
\* handler has commanded the pause and no session is left
C36_Witness ==
    /\ "pause" \in cmds
    /\ settled = "ok"
    /\ pauseTriggeredByButton
    /\ sessionSent = 1
    /\ InFlightCount = 0
    /\ listeningStartTime = NoTime

\* C37: a Play press made while the request of an earlier close is still
\* pending is not lost.  When that request settles in the step after the
\* press, the tracker holds a session for the resumed playback.
C37_ResumeSurvivesDelivery ==
    [][("play" \in cmds /\ InFlightCount' < InFlightCount) => Active']_vars

\* C38: the page becoming visible again does not restart tracking.  The
\* step that shows the page leaves the tracker as it is, sends nothing and
\* commands nothing; an idle tracker gets a session only from a Play press
\* or a 'playing' event; and a Pause or Stop press on an idle tracker
\* sends no record and leaves the tracker idle.
C38_VisibleDoesNotRestart ==
    [][/\ (hidden /\ VisibilityChange)
            => (~hidden' /\ UNCHANGED trackerVars /\ sent' = <<>> /\ cmds' = {})
       /\ (listeningStartTime = NoTime /\ listeningStartTime' # NoTime)
            => (PlayStep \/ NativePlaying)
       /\ (listeningStartTime = NoTime /\ (PauseClick \/ StopClick))
            => (sent' = <<>> /\ listeningStartTime' = NoTime)]_vars

\* the record of the session has been sent with nothing to wait for, as by
\* the close on hiding the page; the page is visible, and a Pause press has
\* just found the tracker idle: it sent nothing and commanded the pause
C38_Witness ==
    /\ ~hidden
    /\ "pause" \in cmds
    /\ dom = Dom("Paused", "play", "")
    /\ sent = <<>>
    /\ settled = ""
    /\ pauseTriggeredByButton
    /\ listeningStartTime = NoTime
    /\ currentStreamUrl # NoUrl
    /\ sessionSent = 1
    /\ InFlightCount = 0
    /\ now = ThresholdMs

====
